---------------------------- MODULE Spec2Model ----------------------------
(***************************************************************************)
(* Model of pbjson-types/src/timestamp.rs: the conversions between the     *)
(* protobuf Timestamp {seconds: i64, nanos: i32} and time::OffsetDateTime, *)
(* the RFC 3339 text codec built on them (serde Serialize / Deserialize),  *)
(* and the structural Eq / Hash of Timestamp.                              *)
(*                                                                         *)
(* Machine integers are two's complement byte vectors, least significant  *)
(* byte first, whose length is the width of the type.  i64 and i128 values *)
(* are kept in that form throughout, because they do not fit the integers  *)
(* of the model checker; an i32 is kept as an Int.                         *)
(***************************************************************************)
EXTENDS Integers, Sequences, FiniteSets, TLC

VARIABLES origin, trail

vars == <<origin, trail>>

-----------------------------------------------------------------------------
(* Fixed-width two's complement arithmetic, as Rust's i32 / i64 / i128.    *)
(* A machine integer of w bits is a sequence of w / 8 bytes (0 .. 255),    *)
(* least significant byte first.                                           *)

\* Widths, in bits, of the integer types the source names.
I32Bits == 32
I64Bits == 64
I128Bits == 128

Byte == 256

\* A byte vector given as a function on 1 .. n, as the sequence of its values.
Vec(f) == SubSeq(f, 1, Len(f))

\* The w-bit two's complement encoding of an integer n with -2^31 <= n < 2^31
\* (an integer literal of the source, or an i32 widened by `as`).
Bits(n, w) ==
    Vec([i \in 1..(w \div 8) |->
            CASE i = 1 -> n % Byte
              [] i = 2 -> (n \div Byte) % Byte
              [] i = 3 -> (n \div (Byte * Byte)) % Byte
              [] i = 4 -> (n \div (Byte * Byte * Byte)) % Byte
              [] OTHER -> IF n < 0 THEN Byte - 1 ELSE 0])

IsNeg(a) == a[Len(a)] >= Byte \div 2

\* `a as iW` for W wider than a's type: sign extension.
SignExtend(a, w) ==
    Vec([i \in 1..(w \div 8) |->
            IF i <= Len(a) THEN a[i] ELSE IF IsNeg(a) THEN Byte - 1 ELSE 0])

\* `a as iW` for W narrower than a's type: truncation to the low w bits.
Truncate(a, w) == SubSeq(a, 1, w \div 8)

\* Whether a vector of at least 32 bits, read as signed, fits -2^31 <= v < 2^31.
FitsInt(a) ==
    \A i \in 5..Len(a) : a[i] = IF a[4] >= Byte \div 2 THEN Byte - 1 ELSE 0

\* The value of a vector for which FitsInt holds.
ToInt(a) ==
    a[1] + Byte * a[2] + Byte * Byte * a[3]
    + Byte * Byte * Byte * (IF a[4] >= Byte \div 2 THEN a[4] - Byte ELSE a[4])

\* The carry into byte i of a + b: some byte below i overflows and every
\* byte between the two passes a carry on.
CarryInto(a, b, i) ==
    IF \E j \in 1..(i - 1) :
          /\ a[j] + b[j] >= Byte
          /\ \A k \in (j + 1)..(i - 1) : a[k] + b[k] = Byte - 1
    THEN 1 ELSE 0

\* wrapping_add on two vectors of one width.
WrappingAdd(a, b) ==
    Vec([i \in 1..Len(a) |-> (a[i] + b[i] + CarryInto(a, b, i)) % Byte])

Not(a) == Vec([i \in 1..Len(a) |-> Byte - 1 - a[i]])

WrappingNeg(a) == WrappingAdd(Not(a), Bits(1, 8 * Len(a)))

WrappingSub(a, b) == WrappingAdd(a, WrappingNeg(b))

\* The k-th column of the schoolbook product: the sum of a[i] * b[j], i + j = k + 1.
RECURSIVE Column(_, _, _, _)
Column(a, b, k, i) ==
    IF i > k THEN 0 ELSE a[i] * b[k + 1 - i] + Column(a, b, k, i + 1)

\* The vector a moved up by k bytes, the top k bytes lost.
ShiftBytes(a, k) == Vec([i \in 1..Len(a) |-> IF i <= k THEN 0 ELSE a[i - k]])

\* The sum of the columns col[k] * 256^(k-1), each column below 2^24: its
\* three bytes are added in at the column and at the two above it.
SumColumns(col) ==
    WrappingAdd(
        WrappingAdd(Vec([k \in 1..Len(col) |-> col[k] % Byte]),
                    ShiftBytes(Vec([k \in 1..Len(col) |-> (col[k] \div Byte) % Byte]), 1)),
        ShiftBytes(Vec([k \in 1..Len(col) |-> col[k] \div (Byte * Byte)]), 2))

\* wrapping_mul on two vectors of one width (the low bits of the product are
\* the same for the signed and the unsigned reading).
WrappingMul(a, b) ==
    SumColumns(Vec([k \in 1..Len(a) |-> Column(a, b, k, 1)]))

\* Signed comparison of two vectors of one width.
UnsignedLess(a, b) ==
    \E i \in 1..Len(a) :
        a[i] < b[i] /\ \A k \in (i + 1)..Len(a) : a[k] = b[k]

SignedLess(a, b) ==
    IF IsNeg(a) # IsNeg(b) THEN IsNeg(a) ELSE UnsignedLess(a, b)

SignedLeq(a, b) == a = b \/ SignedLess(a, b)

\* Whether a vector, read as signed, is the sign extension of its low w bits.
FitsWidth(a, w) == a = SignExtend(Truncate(a, w), 8 * Len(a))

\* Whether the signed sum / product of a and b leaves the type of a and b:
\* the flag of Rust's overflowing_add / overflowing_mul.
AddOverflows(a, b) ==
    IsNeg(a) = IsNeg(b) /\ IsNeg(WrappingAdd(a, b)) # IsNeg(a)

MulOverflows(a, b) ==
    ~FitsWidth(WrappingMul(SignExtend(a, 16 * Len(a)), SignExtend(b, 16 * Len(a))),
               8 * Len(a))

\* 256^m modulo d.
RECURSIVE PowByteMod(_, _)
PowByteMod(m, d) == IF m = 0 THEN 1 % d ELSE (Byte * PowByteMod(m - 1, d)) % d

\* The unsigned value of the bytes i .. Len(a) of a, modulo d: the partial
\* remainder of the long division by d when it reaches byte i.
RECURSIVE RemFrom(_, _, _, _)
RemFrom(a, d, i, k) ==
    IF k > Len(a) THEN 0
    ELSE (((a[k] * PowByteMod(k - i, d)) % d) + RemFrom(a, d, i, k + 1)) % d

\* Unsigned long division of a vector by an integer 0 < d < 2^23:
\* <<quotient, remainder>>.
UDivSmall(a, d) ==
    <<Vec([i \in 1..Len(a) |-> (Byte * RemFrom(a, d, i + 1, i + 1) + a[i]) \div d]),
      RemFrom(a, d, 1, 1)>>

\* The second step of a division by 1000 * e: lo is the result of the division
\* by 1000, whose quotient is divided by e.
JoinThousands(hi, lo) == <<hi[1], 1000 * hi[2] + lo[2]>>

UDivThousands(lo, e) == JoinThousands(UDivSmall(lo[1], e), lo)

\* Unsigned division by d = 1000 * e, 0 < e < 2^23, in two steps, so that no
\* partial remainder leaves the integers of the model checker.
UDiv(a, d) ==
    IF d < 8388608 THEN UDivSmall(a, d)
    ELSE UDivThousands(UDivSmall(a, 1000), d \div 1000)

QuotRem(qr) == [quot |-> qr[1], rem |-> qr[2]]

NegQuotRem(qr) == [quot |-> WrappingNeg(qr[1]), rem |-> 0 - qr[2]]

\* Rust's `/` and `%` on a signed value and a positive divisor: the quotient
\* rounds toward zero and the remainder has the sign of the dividend.
TruncDiv(a, d) ==
    IF IsNeg(a) THEN NegQuotRem(UDiv(WrappingNeg(a), d)) ELSE QuotRem(UDiv(a, d))

FloorQuot(t) ==
    IF t.rem < 0 THEN WrappingSub(t.quot, Bits(1, 8 * Len(t.quot))) ELSE t.quot

EuclidRem(t, d) == IF t.rem < 0 THEN t.rem + d ELSE t.rem

\* A faulty div_floor: the quotient rounded toward zero, as Rust's `/`.
div_floor_truncating(a, d) == TruncDiv(a, d).quot

\* time's div_floor!(a, d): the quotient rounded toward negative infinity.
div_floor(a, d) == FloorQuot(TruncDiv(a, d))

\* A faulty rem_euclid: the remainder with the sign of the dividend, as Rust's `%`.
rem_truncating(a, d) == TruncDiv(a, d).rem

\* time's rem_euclid!(a, d): the remainder in 0 .. d.
rem_euclid(a, d) == EuclidRem(TruncDiv(a, d), d)

I64Min == Vec([i \in 1..(I64Bits \div 8) |-> IF i = I64Bits \div 8 THEN 128 ELSE 0])
I64Max == Vec([i \in 1..(I64Bits \div 8) |-> IF i = I64Bits \div 8 THEN 127 ELSE 255])
I32Min == -2147483647 - 1
I32Max == 2147483647

-----------------------------------------------------------------------------
(* The calendar: time::OffsetDateTime, a proleptic Gregorian date and time *)
(* of day with a UTC offset.  A value is a record                          *)
(*   [year, month, day, hour, minute, second, nanosecond, offset]          *)
(* where offset is the whole seconds east of UTC.                          *)

\* The constants of line 19 and of the calendar's units.
NanosPerSecond == 1000000000
SecondsPerDay == 86400
SecondsPerHour == 3600
SecondsPerMinute == 60

\* time::Date::MIN and time::Date::MAX are the first and last day of these years.
MinYear == -9999
MaxYear == 9999

is_leap_year(y) == y % 4 = 0 /\ (y % 100 # 0 \/ y % 400 = 0)

days_in_month(y, m) ==
    CASE m = 2 -> IF is_leap_year(y) THEN 29 ELSE 28
      [] m \in {4, 6, 9, 11} -> 30
      [] OTHER -> 31

\* Days from 1970-01-01 to the civil date y-m-d (negative before the epoch).
DaysFromCivil(y, m, d) ==
    LET yy == IF m <= 2 THEN y - 1 ELSE y
        era == yy \div 400
        yoe == yy - era * 400
        mp == IF m > 2 THEN m - 3 ELSE m + 9
        doy == (153 * mp + 2) \div 5 + d - 1
        doe == yoe * 365 + yoe \div 4 - yoe \div 100 + doy
    IN  era * 146097 + doe - 719468

\* The civil date of the day z days after 1970-01-01.
CivilFromDays(z) ==
    LET zz == z + 719468
        era == zz \div 146097
        doe == zz - era * 146097
        yoe == (doe - doe \div 1460 + doe \div 36524 - doe \div 146096) \div 365
        doy == doe - (365 * yoe + yoe \div 4 - yoe \div 100)
        mp == (5 * doy + 2) \div 153
        d == doy - (153 * mp + 2) \div 5 + 1
        m == IF mp < 10 THEN mp + 3 ELSE mp - 9
    IN  [year |-> IF m <= 2 THEN yoe + era * 400 + 1 ELSE yoe + era * 400,
         month |-> m, day |-> d]

DateTime(y, mo, d, h, mi, sec, ns, off) ==
    [year |-> y, month |-> mo, day |-> d, hour |-> h, minute |-> mi,
     second |-> sec, nanosecond |-> ns, offset |-> off]

SecondOfDay(dt) ==
    dt.hour * SecondsPerHour + dt.minute * SecondsPerMinute + dt.second

\* A faulty unix_timestamp: the local date and time read as if they were UTC.
unix_timestamp_ignoring_offset(dt) ==
    WrappingAdd(
        WrappingMul(Bits(DaysFromCivil(dt.year, dt.month, dt.day), I64Bits),
                    Bits(SecondsPerDay, I64Bits)),
        Bits(SecondOfDay(dt), I64Bits))

\* OffsetDateTime::unix_timestamp: the i64 count of seconds from the epoch to
\* the instant, which is the local date and time less the offset.
unix_timestamp(dt) ==
    WrappingAdd(
        WrappingMul(Bits(DaysFromCivil(dt.year, dt.month, dt.day), I64Bits),
                    Bits(SecondsPerDay, I64Bits)),
        Bits(SecondOfDay(dt) - dt.offset, I64Bits))

\* OffsetDateTime::nanosecond: the u32 sub-second part, in 0 .. 1_000_000_000.
nanosecond(dt) == dt.nanosecond

\* The least and greatest timestamps the calendar holds: midnight of Date::MIN
\* and the last second of Date::MAX, both in UTC.
MIN_TIMESTAMP == unix_timestamp(DateTime(MinYear, 1, 1, 0, 0, 0, 0, 0))
MAX_TIMESTAMP == unix_timestamp(DateTime(MaxYear, 12, 31, 23, 59, 59, 0, 0))

Ok(v) == [kind |-> "ok", val |-> v]
Err(m) == [kind |-> "err", msg |-> m]
Panic(m) == [kind |-> "panic", msg |-> m]

\* The UTC calendar value of a date and a second of the day.
AtSecondOfDay(date, sod) ==
    DateTime(date.year, date.month, date.day,
             sod \div SecondsPerHour,
             (sod % SecondsPerHour) \div SecondsPerMinute,
             sod % SecondsPerMinute, 0, 0)

\* OffsetDateTime::from_unix_timestamp: the UTC date and time of an i64 count
\* of seconds, or a ComponentRange error outside MIN_TIMESTAMP ..= MAX_TIMESTAMP.
from_unix_timestamp(secs) ==
    IF ~(SignedLeq(MIN_TIMESTAMP, secs) /\ SignedLeq(secs, MAX_TIMESTAMP))
    THEN Err("timestamp must be in the range -377705116800..=253402300799")
    ELSE Ok(AtSecondOfDay(CivilFromDays(ToInt(div_floor(secs, SecondsPerDay))),
                          rem_euclid(secs, SecondsPerDay)))

\* A result with the nanosecond of its calendar value set; an error is kept.
replace_nanosecond(r, ns) ==
    IF r.kind = "err" THEN r ELSE Ok([r.val EXCEPT !.nanosecond = ns])

\* OffsetDateTime::from_unix_timestamp_nanos: the UTC date and time of an i128
\* count of nanoseconds.  The seconds are the floor of the quotient by 10^9,
\* cast to i64; the nanosecond is the euclidean remainder.
from_unix_timestamp_nanos(timestamp) ==
    replace_nanosecond(
        from_unix_timestamp(Truncate(div_floor(timestamp, NanosPerSecond), I64Bits)),
        rem_euclid(timestamp, NanosPerSecond))

-----------------------------------------------------------------------------
(* Text: a string is a sequence of one-character strings.                  *)

Digits == <<"0", "1", "2", "3", "4", "5", "6", "7", "8", "9">>

IsDigit(c) == \E d \in 1..10 : Digits[d] = c

DigitVal(c) == (CHOOSE d \in 1..10 : Digits[d] = c) - 1

RECURSIVE Pow10(_)
Pow10(k) == IF k = 0 THEN 1 ELSE 10 * Pow10(k - 1)

\* time's format_number_pad_zero::<WIDTH>: n in WIDTH decimal digits.
format_number_pad_zero(width, n) ==
    Vec([i \in 1..width |-> Digits[((n \div Pow10(width - i)) % 10) + 1]])

\* The number of trailing decimal zeros of 0 < n < 10^9.
RECURSIVE TrailingZeros(_)
TrailingZeros(n) == IF n % 10 # 0 THEN 0 ELSE 1 + TrailingZeros(n \div 10)

Abs(n) == IF n < 0 THEN 0 - n ELSE n

\* The digits of 0 < ns < 10^9 as a fraction of nine places less its z
\* trailing zeros.
format_trimmed(ns, z) == format_number_pad_zero(9 - z, ns \div Pow10(z))

\* A faulty fraction: three places only, the precision of a millisecond.
format_subsecond_millis(ns) ==
    IF ns = 0 THEN <<>> ELSE <<".">> \o format_number_pad_zero(3, ns \div 1000000)

format_subsecond(ns) ==
    IF ns = 0 THEN <<>> ELSE <<".">> \o format_trimmed(ns, TrailingZeros(ns))

format_offset(offset) ==
    IF offset = 0 THEN <<"Z">>
    ELSE <<IF offset < 0 THEN "-" ELSE "+">>
         \o format_number_pad_zero(2, Abs(offset) \div SecondsPerHour) \o <<":">>
         \o format_number_pad_zero(2, (Abs(offset) % SecondsPerHour) \div SecondsPerMinute)

\* <time::OffsetDateTime>::format(&Rfc3339): the year must lie in 0 .. 10000,
\* the offset hour within 23 and the offset a whole number of minutes; the
\* fraction is printed only when it is not zero and without trailing zeros;
\* the UTC offset is printed as Z.
format_Rfc3339(dt) ==
    IF ~(0 <= dt.year /\ dt.year < 10000)
    THEN Err("The year component cannot be formatted into the requested format.")
    ELSE IF Abs(dt.offset) \div SecondsPerHour > 23
    THEN Err("The offset_hour component cannot be formatted into the requested format.")
    ELSE IF dt.offset % SecondsPerMinute # 0
    THEN Err("The offset_second component cannot be formatted into the requested format.")
    ELSE Ok(format_number_pad_zero(4, dt.year) \o <<"-">>
            \o format_number_pad_zero(2, dt.month) \o <<"-">>
            \o format_number_pad_zero(2, dt.day) \o <<"T">>
            \o format_number_pad_zero(2, dt.hour) \o <<":">>
            \o format_number_pad_zero(2, dt.minute) \o <<":">>
            \o format_number_pad_zero(2, dt.second)
            \o format_subsecond(dt.nanosecond)
            \o format_offset(dt.offset))

\* The character at position i, or "" past the end of the input.
At(s, i) == IF i <= Len(s) THEN s[i] ELSE ""

\* time's exactly_n_digits::<N>: whether N digits stand at position i.
exactly_n_digits(s, i, n) == \A k \in 0..(n - 1) : IsDigit(At(s, i + k))

RECURSIVE NumberAt(_, _, _)
NumberAt(s, i, n) ==
    IF n = 0 THEN 0
    ELSE DigitVal(s[i]) * Pow10(n - 1) + NumberAt(s, i + 1, n - 1)

\* The count of consecutive digits from position i on.
RECURSIVE DigitRun(_, _)
DigitRun(s, i) == IF IsDigit(At(s, i)) THEN 1 + DigitRun(s, i + 1) ELSE 0

\* The fraction's value in nanoseconds: the first digit counts 10^8, the next
\* 10^7, and so on; digits after the ninth are consumed and count nothing.
RECURSIVE FractionAt(_, _, _)
FractionAt(s, i, k) ==
    IF ~IsDigit(At(s, i)) THEN 0
    ELSE (IF k <= 9 THEN DigitVal(s[i]) * Pow10(9 - k) ELSE 0)
         + FractionAt(s, i + 1, k + 1)

UtcFields(date, sod) ==
    [year |-> date.year, month |-> date.month, day |-> date.day,
     second_of_day |-> sod]

\* The UTC date and time of day of a calendar value.
ToUtc(dt) ==
    UtcFields(CivilFromDays(DaysFromCivil(dt.year, dt.month, dt.day)
                            + (SecondOfDay(dt) - dt.offset) \div SecondsPerDay),
              (SecondOfDay(dt) - dt.offset) % SecondsPerDay)

IsLastSecondOfMonth(u) ==
    u.second_of_day = SecondsPerDay - 1 /\ u.day = days_in_month(u.year, u.month)

\* OffsetDateTime::is_valid_leap_second_stand_in: the last nanosecond of the
\* last day of a month, in UTC.
is_valid_leap_second_stand_in(dt) ==
    dt.nanosecond = NanosPerSecond - 1 /\ IsLastSecondOfMonth(ToUtc(dt))

\* Date::from_calendar_date, Time::from_hms_nano and UtcOffset::from_hms on
\* the parsed fields: the calendar value, or the first field out of range.
\* A second of 60 (a leap second) stands for the nanosecond before it and is
\* accepted only as the last second of a month in UTC.
FromParsed(y, mo, d, h, mi, sec, ns, sign, oh, om) ==
    LET leap == sec = 60
        dt == DateTime(y, mo, d, h, mi, IF leap THEN 59 ELSE sec,
                       IF leap THEN NanosPerSecond - 1 ELSE ns,
                       sign * (oh * SecondsPerHour + om * SecondsPerMinute))
    IN  IF mo < 1 \/ mo > 12 THEN Err("month must be in the range 1..=12")
        ELSE IF d < 1 \/ d > days_in_month(y, mo)
        THEN Err("day must be in the range 1..=" \o ToString(days_in_month(y, mo)))
        ELSE IF h > 23 THEN Err("hour must be in the range 0..=23")
        ELSE IF mi > 59 THEN Err("minute must be in the range 0..=59")
        ELSE IF sec > 60 THEN Err("second must be in the range 0..=59")
        ELSE IF oh > 23 THEN Err("offset hour must be in the range -23..=23")
        ELSE IF om > 59 THEN Err("offset minute must be in the range -59..=59")
        ELSE IF leap /\ ~is_valid_leap_second_stand_in(dt)
        THEN Err("second must be in the range 0..=59")
        ELSE Ok(dt)

\* time::OffsetDateTime::parse(s, &Rfc3339):
\*   YYYY-MM-DD (T|t) hh:mm:ss [. digits] (Z | z | (+|-) hh:mm), and nothing after.
parse_Rfc3339(s) ==
    IF ~exactly_n_digits(s, 1, 4)
    THEN Err("the 'year' component could not be parsed")
    ELSE IF At(s, 5) # "-" THEN Err("a character literal was not valid")
    ELSE IF ~exactly_n_digits(s, 6, 2)
    THEN Err("the 'month' component could not be parsed")
    ELSE IF At(s, 8) # "-" THEN Err("a character literal was not valid")
    ELSE IF ~exactly_n_digits(s, 9, 2)
    THEN Err("the 'day' component could not be parsed")
    ELSE IF At(s, 11) \notin {"T", "t"} THEN Err("a character literal was not valid")
    ELSE IF ~exactly_n_digits(s, 12, 2)
    THEN Err("the 'hour' component could not be parsed")
    ELSE IF At(s, 14) # ":" THEN Err("a character literal was not valid")
    ELSE IF ~exactly_n_digits(s, 15, 2)
    THEN Err("the 'minute' component could not be parsed")
    ELSE IF At(s, 17) # ":" THEN Err("a character literal was not valid")
    ELSE IF ~exactly_n_digits(s, 18, 2)
    THEN Err("the 'second' component could not be parsed")
    ELSE LET frac == At(s, 20) = "."
             run == IF frac THEN DigitRun(s, 21) ELSE 0
             p == IF frac THEN 21 + run ELSE 20
             utc == At(s, p) \in {"Z", "z"}
             last == IF utc THEN p ELSE p + 5
         IN  IF frac /\ run = 0
             THEN Err("the 'subsecond' component could not be parsed")
             ELSE IF ~utc /\ At(s, p) \notin {"+", "-"}
             THEN Err("the 'offset hour' component could not be parsed")
             ELSE IF ~utc /\ ~exactly_n_digits(s, p + 1, 2)
             THEN Err("the 'offset hour' component could not be parsed")
             ELSE IF ~utc /\ At(s, p + 3) # ":"
             THEN Err("a character literal was not valid")
             ELSE IF ~utc /\ ~exactly_n_digits(s, p + 4, 2)
             THEN Err("the 'offset minute' component could not be parsed")
             ELSE IF Len(s) > last
             THEN Err("unexpected trailing characters; the end of input was expected")
             ELSE FromParsed(NumberAt(s, 1, 4), NumberAt(s, 6, 2), NumberAt(s, 9, 2),
                             NumberAt(s, 12, 2), NumberAt(s, 15, 2), NumberAt(s, 18, 2),
                             IF frac THEN FractionAt(s, 21, 1) ELSE 0,
                             IF utc THEN 1 ELSE IF s[p] = "-" THEN -1 ELSE 1,
                             IF utc THEN 0 ELSE NumberAt(s, p + 1, 2),
                             IF utc THEN 0 ELSE NumberAt(s, p + 4, 2))

-----------------------------------------------------------------------------
(* timestamp.rs                                                            *)

\* crate::Timestamp: seconds is an i64 (a byte vector), nanos an i32.
Timestamp(seconds, nanos) == [seconds |-> seconds, nanos |-> nanos]

\* `n as i32` on a u32: the same 32 bits read as signed.
AsI32(n) == ToInt(Bits(n, I32Bits))

\* A faulty Timestamp::from(dt): the sub-second part is dropped.
Timestamp_from_whole_seconds(dt) == Timestamp(unix_timestamp(dt), 0)

\* impl From<time::OffsetDateTime> for Timestamp (lines 6-15).
Timestamp_from(dt) == Timestamp(unix_timestamp(dt), AsI32(nanosecond(dt)))

\* A faulty line 19: the product and the sum computed in i64, then widened.
total_ns_i64(ts) ==
    SignExtend(WrappingAdd(WrappingMul(ts.seconds, Bits(NanosPerSecond, I64Bits)),
                           Bits(ts.nanos, I64Bits)),
               I128Bits)

\* Line 19: ts.seconds as i128 * 1_000_000_000 + ts.nanos as i128.
total_ns(ts) ==
    WrappingAdd(WrappingMul(SignExtend(ts.seconds, I128Bits),
                            Bits(NanosPerSecond, I128Bits)),
                Bits(ts.nanos, I128Bits))

\* Whether the multiplication or the addition of line 19 overflows i128.
total_ns_overflows(ts) ==
    \/ MulOverflows(SignExtend(ts.seconds, I128Bits), Bits(NanosPerSecond, I128Bits))
    \/ AddOverflows(WrappingMul(SignExtend(ts.seconds, I128Bits),
                                Bits(NanosPerSecond, I128Bits)),
                    Bits(ts.nanos, I128Bits))

\* Result::unwrap (line 22): the value, or a panic with the error's message.
unwrap(r) ==
    IF r.kind = "err"
    THEN Panic("called Result::unwrap() on an Err value: " \o r.msg)
    ELSE r

\* The outcomes of lines 19-22, given whether line 19 overflows and what the
\* conversion of the wrapped value yields.
Outcomes(overflows, done) ==
    IF overflows THEN {Panic("attempt to multiply with overflow"), done} ELSE {done}

\* impl From<Timestamp> for time::OffsetDateTime (lines 17-24): the outcomes
\* of the conversion.  The unwrap of line 22 panics on the ComponentRange
\* error.  An overflow at line 19 panics in a build with overflow checks and
\* wraps in one without.
OffsetDateTime_from(ts) ==
    Outcomes(total_ns_overflows(ts), unwrap(from_unix_timestamp_nanos(total_ns(ts))))

\* serde_json's serialize_str on a string without characters to escape: the
\* string between double quotes (line 90).
serialize_str(s) == <<"\"">> \o s \o <<"\"">>

\* .map_err(Error::custom) (lines 31, 32 and 49): an error becomes the
\* serializer's or deserializer's error with the same message.
map_err(r) == IF r.kind = "err" THEN Err(r.msg) ELSE r

\* impl Serialize for Timestamp (lines 26-34): the outcomes.  The try_into of
\* line 31 is the blanket TryFrom of the From above, so it cannot return an
\* error and a panic within it passes through; the format error of line 32 is
\* mapped to the serializer's error with its message.
serialize(ts) ==
    {IF t.kind = "panic" THEN t ELSE map_err(format_Rfc3339(t.val))
     : t \in OffsetDateTime_from(ts)}

\* Ok(d.into()) after the `?` of line 49: a parsed value is converted.
into(d) == IF d.kind = "err" THEN d ELSE Ok(Timestamp_from(d.val))

\* A faulty visit_str: a string that does not parse yields the epoch.
visit_str_or_default(s) ==
    IF parse_Rfc3339(s).kind = "err"
    THEN Ok(Timestamp(Bits(0, I64Bits), 0))
    ELSE into(parse_Rfc3339(s))

\* TimestampVisitor::visit_str (lines 45-51): the parse error is mapped to the
\* deserializer's error with its message; a parsed value is converted.
visit_str(s) == into(map_err(parse_Rfc3339(s)))

\* impl Deserialize for Timestamp (lines 54-61), given a string token.
deserialize(s) == visit_str(s)

\* A faulty hash: the fields are normalized before they are written.
hash_normalized(ts, state) ==
    state \o Truncate(div_floor(total_ns(ts), NanosPerSecond), I64Bits)
          \o Bits(rem_euclid(total_ns(ts), NanosPerSecond), I32Bits)

\* impl Hash for Timestamp (lines 63-69): the bytes written to the hasher
\* state, the i64 seconds and then the i32 nanos.
hash(ts, state) == state \o ts.seconds \o Bits(ts.nanos, I32Bits)

\* A faulty eq: two values are equal when they denote the same instant.
eq_normalizing(a, b) == total_ns(a) = total_ns(b)

\* The equality of Timestamp that lines 71-73 document: the fields compared.
eq(a, b) == a.seconds = b.seconds /\ a.nanos = b.nanos

-----------------------------------------------------------------------------
(* Inputs.                                                                 *)

\* The i64 of value hi * 10^9 + lo, for integers hi and lo.
I64(hi, lo) ==
    WrappingAdd(WrappingMul(Bits(hi, I64Bits), Bits(NanosPerSecond, I64Bits)),
                Bits(lo, I64Bits))

\* 0000-01-01T00:00:00Z, the first instant RFC 3339 can write.
YEAR_ZERO_TIMESTAMP == I64(-62, -167219200)

TimestampInputs ==
    { Timestamp(I64(0, 0), 0),
      Timestamp(I64(1, 431680400), 0),                 \* 2015-05-15T09:00:00Z
      Timestamp(I64(1, 431680400), 123456789),
      Timestamp(I64(1, 431680400), 120000000),
      Timestamp(I64(1, 431684000), 0),                 \* 2015-05-15T10:00:00Z
      Timestamp(I64(0, -1), 999999999),                \* 1969-12-31T23:59:59.999999999Z
      Timestamp(I64(-1, -431680400), 1),
      Timestamp(I64(1, 456704000), 500000000),         \* 2016-02-29T00:00:00.5Z
      Timestamp(I64(0, 1), 1000000000),                \* not normalized: nanos = 10^9
      Timestamp(I64(0, 2), 0),
      Timestamp(I64(0, 0), -1),                        \* not normalized: nanos < 0
      Timestamp(I64(0, 5), I32Max),
      Timestamp(I64(0, 5), I32Min),
      Timestamp(YEAR_ZERO_TIMESTAMP, 0),
      Timestamp(YEAR_ZERO_TIMESTAMP, -1),              \* year -1, not normalized
      Timestamp(I64(-62, -167219201), 999999999),      \* -0001-12-31T23:59:59.999999999Z
      Timestamp(MIN_TIMESTAMP, 0),                     \* -9999-01-01T00:00:00Z
      Timestamp(MIN_TIMESTAMP, -1),                    \* before the calendar
      Timestamp(MAX_TIMESTAMP, 999999999),             \* 9999-12-31T23:59:59.999999999Z
      Timestamp(MAX_TIMESTAMP, 1000000000),            \* after the calendar
      Timestamp(I64(253, 402300800), 0),               \* 10000-01-01T00:00:00Z
      Timestamp(I64Max, I32Max),
      Timestamp(I64Max, 0),
      Timestamp(I64Min, I32Min),
      Timestamp(I64Min, 0) }

\* The right-hand sides of the comparisons.
OtherInputs ==
    { Timestamp(I64(0, 2), 0),
      Timestamp(I64(0, 1), 1000000000),
      Timestamp(I64(0, 0), -1),
      Timestamp(I64(0, -1), 999999999),
      Timestamp(I64(1, 431680400), 123456789) }

\* Calendar values, each with the count of whole seconds from the epoch to
\* its instant (the floor), whether the instant in UTC is within the years
\* -9999 .. 9999 of the calendar, and the same instant at offset zero.
CalendarCases ==
    { [dt |-> DateTime(1970, 1, 1, 0, 0, 0, 0, 0),
       seconds |-> I64(0, 0), in_range |-> TRUE,
       utc |-> DateTime(1970, 1, 1, 0, 0, 0, 0, 0)],
      [dt |-> DateTime(2015, 5, 15, 9, 0, 0, 0, 0),
       seconds |-> I64(1, 431680400), in_range |-> TRUE,
       utc |-> DateTime(2015, 5, 15, 9, 0, 0, 0, 0)],
      [dt |-> DateTime(2015, 5, 15, 9, 0, 0, 123456789, 0),
       seconds |-> I64(1, 431680400), in_range |-> TRUE,
       utc |-> DateTime(2015, 5, 15, 9, 0, 0, 123456789, 0)],
      [dt |-> DateTime(2015, 5, 15, 10, 0, 0, 0, 0),
       seconds |-> I64(1, 431684000), in_range |-> TRUE,
       utc |-> DateTime(2015, 5, 15, 10, 0, 0, 0, 0)],
      [dt |-> DateTime(2015, 5, 15, 11, 0, 0, 0, 7200),   \* 09:00:00Z at +02:00
       seconds |-> I64(1, 431680400), in_range |-> TRUE,
       utc |-> DateTime(2015, 5, 15, 9, 0, 0, 0, 0)],
      [dt |-> DateTime(2015, 5, 15, 4, 30, 0, 1, -16200),   \* 09:00:00.000000001Z at -04:30
       seconds |-> I64(1, 431680400), in_range |-> TRUE,
       utc |-> DateTime(2015, 5, 15, 9, 0, 0, 1, 0)],
      [dt |-> DateTime(1969, 12, 31, 23, 59, 59, 999999999, 0),   \* the last nanosecond before the epoch
       seconds |-> I64(0, -1), in_range |-> TRUE,
       utc |-> DateTime(1969, 12, 31, 23, 59, 59, 999999999, 0)],
      [dt |-> DateTime(1970, 1, 1, 0, 0, 0, 5, 3600),   \* before the epoch in UTC
       seconds |-> I64(0, -3600), in_range |-> TRUE,
       utc |-> DateTime(1969, 12, 31, 23, 0, 0, 5, 0)],
      [dt |-> DateTime(1900, 3, 1, 0, 0, 0, 0, 0),
       seconds |-> I64(-2, -203891200), in_range |-> TRUE,
       utc |-> DateTime(1900, 3, 1, 0, 0, 0, 0, 0)],
      [dt |-> DateTime(2016, 2, 29, 12, 0, 0, 0, 0),
       seconds |-> I64(1, 456747200), in_range |-> TRUE,
       utc |-> DateTime(2016, 2, 29, 12, 0, 0, 0, 0)],
      [dt |-> DateTime(0, 1, 1, 0, 0, 0, 0, 0),
       seconds |-> I64(-62, -167219200), in_range |-> TRUE,
       utc |-> DateTime(0, 1, 1, 0, 0, 0, 0, 0)],
      [dt |-> DateTime(-1, 12, 31, 23, 59, 59, 999999999, 0),
       seconds |-> I64(-62, -167219201), in_range |-> TRUE,
       utc |-> DateTime(-1, 12, 31, 23, 59, 59, 999999999, 0)],
      [dt |-> DateTime(-9999, 1, 1, 0, 0, 0, 0, 0),   \* the first instant of the calendar
       seconds |-> I64(-377, -705116800), in_range |-> TRUE,
       utc |-> DateTime(-9999, 1, 1, 0, 0, 0, 0, 0)],
      [dt |-> DateTime(9999, 12, 31, 23, 59, 59, 999999999, 0),   \* the last instant of the calendar
       seconds |-> I64(253, 402300799), in_range |-> TRUE,
       utc |-> DateTime(9999, 12, 31, 23, 59, 59, 999999999, 0)],
      [dt |-> DateTime(9999, 12, 31, 23, 59, 59, 0, -3600),   \* an hour after the calendar's last day, in UTC
       seconds |-> I64(253, 402304399), in_range |-> FALSE,
       utc |-> DateTime(10000, 1, 1, 0, 59, 59, 0, 0)] }

CalendarInputs == {c.dt : c \in CalendarCases}

\* Valid RFC 3339 date-times, each with the instant it denotes (the seconds
\* and nanoseconds from the epoch, in UTC) and the RFC 3339 text of that
\* instant in UTC, as test_date (lines 82-91) compares them; canon is empty
\* where the UTC year is not one of 0000 .. 9999, which RFC 3339 cannot write.
ValidCases ==
    { [text |-> <<"2", "0", "1", "5", "-", "0", "5", "-", "1", "5", "T", "0", "9", ":", "0", "0", ":", "0", "0", "Z">>,
       seconds |-> I64(1, 431680400), nanos |-> 0,
       canon |-> <<"2", "0", "1", "5", "-", "0", "5", "-", "1", "5", "T", "0", "9", ":", "0", "0", ":", "0", "0", "Z">>],
      [text |-> <<"2", "0", "1", "5", "-", "0", "5", "-", "1", "5", "T", "0", "9", ":", "0", "0", ":", "0", "0", ".", "1", "2", "3", "4", "5", "6", "7", "8", "9", "Z">>,
       seconds |-> I64(1, 431680400), nanos |-> 123456789,
       canon |-> <<"2", "0", "1", "5", "-", "0", "5", "-", "1", "5", "T", "0", "9", ":", "0", "0", ":", "0", "0", ".", "1", "2", "3", "4", "5", "6", "7", "8", "9", "Z">>],
      [text |-> <<"2", "0", "1", "5", "-", "0", "5", "-", "1", "5", "T", "1", "1", ":", "0", "0", ":", "0", "0", "+", "0", "2", ":", "0", "0">>,
       seconds |-> I64(1, 431680400), nanos |-> 0,
       canon |-> <<"2", "0", "1", "5", "-", "0", "5", "-", "1", "5", "T", "0", "9", ":", "0", "0", ":", "0", "0", "Z">>],
      [text |-> <<"2", "0", "1", "5", "-", "0", "5", "-", "1", "5", "T", "0", "9", ":", "0", "0", ":", "0", "0", "-", "0", "0", ":", "0", "0">>,
       seconds |-> I64(1, 431680400), nanos |-> 0,
       canon |-> <<"2", "0", "1", "5", "-", "0", "5", "-", "1", "5", "T", "0", "9", ":", "0", "0", ":", "0", "0", "Z">>],
      [text |-> <<"2", "0", "1", "5", "-", "0", "5", "-", "1", "5", "T", "0", "4", ":", "3", "0", ":", "0", "0", ".", "5", "-", "0", "4", ":", "3", "0">>,
       seconds |-> I64(1, 431680400), nanos |-> 500000000,
       canon |-> <<"2", "0", "1", "5", "-", "0", "5", "-", "1", "5", "T", "0", "9", ":", "0", "0", ":", "0", "0", ".", "5", "Z">>],
      [text |-> <<"2", "0", "1", "5", "-", "0", "5", "-", "1", "5", "t", "0", "9", ":", "0", "0", ":", "0", "0", ".", "5", "0", "0", "z">>,
       seconds |-> I64(1, 431680400), nanos |-> 500000000,
       canon |-> <<"2", "0", "1", "5", "-", "0", "5", "-", "1", "5", "T", "0", "9", ":", "0", "0", ":", "0", "0", ".", "5", "Z">>],
      [text |-> <<"2", "0", "1", "5", "-", "0", "5", "-", "1", "5", "T", "0", "9", ":", "0", "0", ":", "0", "0", ".", "1", "2", "3", "4", "5", "6", "7", "8", "9", "1", "Z">>,
       seconds |-> I64(1, 431680400), nanos |-> 123456789,
       canon |-> <<"2", "0", "1", "5", "-", "0", "5", "-", "1", "5", "T", "0", "9", ":", "0", "0", ":", "0", "0", ".", "1", "2", "3", "4", "5", "6", "7", "8", "9", "Z">>],
      [text |-> <<"1", "9", "6", "9", "-", "1", "2", "-", "3", "1", "T", "2", "3", ":", "5", "9", ":", "5", "9", ".", "9", "9", "9", "9", "9", "9", "9", "9", "9", "Z">>,
       seconds |-> I64(0, -1), nanos |-> 999999999,
       canon |-> <<"1", "9", "6", "9", "-", "1", "2", "-", "3", "1", "T", "2", "3", ":", "5", "9", ":", "5", "9", ".", "9", "9", "9", "9", "9", "9", "9", "9", "9", "Z">>],
      [text |-> <<"1", "9", "7", "0", "-", "0", "1", "-", "0", "1", "T", "0", "0", ":", "3", "0", ":", "0", "0", "+", "0", "1", ":", "0", "0">>,
       seconds |-> I64(0, -1800), nanos |-> 0,
       canon |-> <<"1", "9", "6", "9", "-", "1", "2", "-", "3", "1", "T", "2", "3", ":", "3", "0", ":", "0", "0", "Z">>],
      [text |-> <<"2", "0", "1", "6", "-", "0", "2", "-", "2", "9", "T", "1", "2", ":", "0", "0", ":", "0", "0", "Z">>,
       seconds |-> I64(1, 456747200), nanos |-> 0,
       canon |-> <<"2", "0", "1", "6", "-", "0", "2", "-", "2", "9", "T", "1", "2", ":", "0", "0", ":", "0", "0", "Z">>],
      [text |-> <<"0", "0", "0", "0", "-", "0", "1", "-", "0", "1", "T", "0", "0", ":", "0", "0", ":", "0", "0", "Z">>,
       seconds |-> I64(-62, -167219200), nanos |-> 0,
       canon |-> <<"0", "0", "0", "0", "-", "0", "1", "-", "0", "1", "T", "0", "0", ":", "0", "0", ":", "0", "0", "Z">>],
      [text |-> <<"0", "0", "0", "0", "-", "0", "1", "-", "0", "1", "T", "0", "0", ":", "0", "0", ":", "0", "0", "+", "0", "1", ":", "0", "0">>,
       seconds |-> I64(-62, -167222800), nanos |-> 0,
       canon |-> <<>>],
      [text |-> <<"9", "9", "9", "9", "-", "1", "2", "-", "3", "1", "T", "2", "3", ":", "5", "9", ":", "5", "9", ".", "9", "9", "9", "9", "9", "9", "9", "9", "9", "Z">>,
       seconds |-> I64(253, 402300799), nanos |-> 999999999,
       canon |-> <<"9", "9", "9", "9", "-", "1", "2", "-", "3", "1", "T", "2", "3", ":", "5", "9", ":", "5", "9", ".", "9", "9", "9", "9", "9", "9", "9", "9", "9", "Z">>],
      [text |-> <<"9", "9", "9", "9", "-", "1", "2", "-", "3", "1", "T", "2", "3", ":", "5", "9", ":", "5", "9", "-", "0", "1", ":", "0", "0">>,
       seconds |-> I64(253, 402304399), nanos |-> 0,
       canon |-> <<>>] }

\* "not-a-date"
\* ""
\* "2015-05-15"
\* "2015-13-15T09:00:00Z"
\* "2015-02-30T09:00:00Z"
\* "2015-05-15T24:00:00Z"
\* "2015-05-15T09:00:61Z"
\* "2015-05-15T09:00:00"
\* "2015-05-15T09:00:00Zjunk"
\* "2015-05-15T09:00:00.Z"
\* "15-05-15T09:00:00Z"
\* "2015-05-15T09:00:00+0200"
\* "2015/05/15T09:00:00Z"
\* Strings that are no RFC 3339 date-time.
MalformedStrings ==
    { <<"n", "o", "t", "-", "a", "-", "d", "a", "t", "e">>,
      <<>>,
      <<"2", "0", "1", "5", "-", "0", "5", "-", "1", "5">>,
      <<"2", "0", "1", "5", "-", "1", "3", "-", "1", "5", "T", "0", "9", ":", "0", "0", ":", "0", "0", "Z">>,
      <<"2", "0", "1", "5", "-", "0", "2", "-", "3", "0", "T", "0", "9", ":", "0", "0", ":", "0", "0", "Z">>,
      <<"2", "0", "1", "5", "-", "0", "5", "-", "1", "5", "T", "2", "4", ":", "0", "0", ":", "0", "0", "Z">>,
      <<"2", "0", "1", "5", "-", "0", "5", "-", "1", "5", "T", "0", "9", ":", "0", "0", ":", "6", "1", "Z">>,
      <<"2", "0", "1", "5", "-", "0", "5", "-", "1", "5", "T", "0", "9", ":", "0", "0", ":", "0", "0">>,
      <<"2", "0", "1", "5", "-", "0", "5", "-", "1", "5", "T", "0", "9", ":", "0", "0", ":", "0", "0", "Z", "j", "u", "n", "k">>,
      <<"2", "0", "1", "5", "-", "0", "5", "-", "1", "5", "T", "0", "9", ":", "0", "0", ":", "0", "0", ".", "Z">>,
      <<"1", "5", "-", "0", "5", "-", "1", "5", "T", "0", "9", ":", "0", "0", ":", "0", "0", "Z">>,
      <<"2", "0", "1", "5", "-", "0", "5", "-", "1", "5", "T", "0", "9", ":", "0", "0", ":", "0", "0", "+", "0", "2", "0", "0">>,
      <<"2", "0", "1", "5", "/", "0", "5", "/", "1", "5", "T", "0", "9", ":", "0", "0", ":", "0", "0", "Z">> }

\* A leap second: RFC 3339 allows the second 60 at the end of a month.
LeapSecondStrings ==
    { <<"2", "0", "1", "6", "-", "1", "2", "-", "3", "1", "T", "2", "3", ":", "5", "9", ":", "6", "0", "Z">> }

StringInputs ==
    {c.text : c \in ValidCases} \cup MalformedStrings \cup LeapSecondStrings

-----------------------------------------------------------------------------
(* The state: origin is the value a caller starts from, a Timestamp ("ts"), *)
(* a calendar value ("dt") or a string ("str"); trail is the sequence of   *)
(* the calls made so far, each applied to the value the call before it     *)
(* returned (or to origin), with its argument and its outcome.             *)

\* The longest chain of calls.
MaxSteps == 4

Value(kind, val) == [kind |-> kind, val |-> val]

Last == trail[Len(trail)]

\* The kind of value a successful call returns.
Returns(op) ==
    CASE op = "serialize" -> "str"
      [] op \in {"deserialize", "Timestamp_from"} -> "ts"
      [] op = "OffsetDateTime_from" -> "dt"
      [] OTHER -> "none"

\* The value at hand: the origin, or what the last call returned.
Cur ==
    IF trail = <<>> THEN origin
    ELSE IF Last.res.kind = "ok" THEN Value(Returns(Last.op), Last.res.val)
    ELSE Value("none", Last.res.kind)

Init ==
    /\ origin \in {Value("ts", t) : t \in TimestampInputs}
                  \cup {Value("dt", d) : d \in CalendarInputs}
                  \cup {Value("str", s) : s \in StringInputs}
    /\ trail = <<>>

\* serde_json::to_string(&ts): Serialize::serialize with the JSON serializer.
Serialize ==
    /\ Len(trail) < MaxSteps
    /\ Cur.kind = "ts"
    /\ \E r \in serialize(Cur.val) :
          trail' = Append(trail,
              [op |-> "serialize", arg |-> Cur.val, res |-> r,
               json |-> IF r.kind = "ok" THEN serialize_str(r.val) ELSE <<>>])
    /\ UNCHANGED origin

\* Timestamp::deserialize on a string deserializer.
Deserialize ==
    /\ Len(trail) < MaxSteps
    /\ Cur.kind = "str"
    /\ trail' = Append(trail,
          [op |-> "deserialize", arg |-> Cur.val, res |-> deserialize(Cur.val)])
    /\ UNCHANGED origin

\* Timestamp::from(dt).
FromCalendar ==
    /\ Len(trail) < MaxSteps
    /\ Cur.kind = "dt"
    /\ trail' = Append(trail,
          [op |-> "Timestamp_from", arg |-> Cur.val, res |-> Ok(Timestamp_from(Cur.val))])
    /\ UNCHANGED origin

\* time::OffsetDateTime::from(ts); the step also keeps the i128 of line 19.
IntoCalendar ==
    /\ Len(trail) < MaxSteps
    /\ Cur.kind = "ts"
    /\ \E r \in OffsetDateTime_from(Cur.val) :
          trail' = Append(trail,
              [op |-> "OffsetDateTime_from", arg |-> Cur.val, res |-> r,
               total |-> total_ns(Cur.val),
               overflow |-> total_ns_overflows(Cur.val)])
    /\ UNCHANGED origin

\* A lookup of ts in a hashed collection that holds b: both are hashed from
\* an empty hasher state, and compared.
Compare ==
    /\ Len(trail) < MaxSteps
    /\ Cur.kind = "ts"
    /\ \E b \in OtherInputs :
          trail' = Append(trail,
              [op |-> "compare", arg |-> Cur.val, other |-> b,
               res |-> Ok(eq(Cur.val, b)),
               hash_arg |-> hash(Cur.val, <<>>), hash_other |-> hash(b, <<>>)])
    /\ UNCHANGED origin

Next == Serialize \/ Deserialize \/ FromCalendar \/ IntoCalendar \/ Compare

Spec == Init /\ [][Next]_vars

-----------------------------------------------------------------------------
(* Properties.  Each is stated on the calls the trail records: Last is the *)
(* call just made and Prev the one before it.                              *)

Acted == trail # <<>>

Prev == trail[Len(trail) - 1]

\* nanos within 0 .. 10^9.
Normalized(ts) == 0 <= ts.nanos /\ ts.nanos < NanosPerSecond

\* A normalized Timestamp within 0000-01-01T00:00:00Z ..
\* 9999-12-31T23:59:59.999999999Z, the instants RFC 3339 can write.
InTextRange(ts) ==
    /\ Normalized(ts)
    /\ SignedLeq(YEAR_ZERO_TIMESTAMP, ts.seconds)
    /\ SignedLeq(ts.seconds, MAX_TIMESTAMP)

\* A calendar value whose instant, in UTC, is within the years of the calendar.
InCalendarRange(dt) == MinYear <= ToUtc(dt).year /\ ToUtc(dt).year <= MaxYear

\* seconds * 10^9 + nanos in 256 bits, where it cannot wrap; wide is the
\* i128 of a Timestamp widened.
IsExactTotal(wide, ts) ==
    wide = WrappingAdd(WrappingMul(SignExtend(ts.seconds, 2 * I128Bits),
                                   Bits(NanosPerSecond, 2 * I128Bits)),
                       Bits(ts.nanos, 2 * I128Bits))

\* A Timestamp whose seconds * 10^9 + nanos is before the first or after the
\* last nanosecond of the calendar.
OutOfCalendarRange(ts) ==
    \/ SignedLess(total_ns(ts),
                  WrappingMul(SignExtend(MIN_TIMESTAMP, I128Bits),
                              Bits(NanosPerSecond, I128Bits)))
    \/ SignedLeq(WrappingMul(WrappingAdd(SignExtend(MAX_TIMESTAMP, I128Bits),
                                         Bits(1, I128Bits)),
                             Bits(NanosPerSecond, I128Bits)),
                 total_ns(ts))

\* C1: for every Timestamp with 0 <= nanos < 10^9 and seconds within the range
\* the text can represent (0000-01-01T00:00:00Z .. 9999-12-31T23:59:59Z,
\* negative seconds included), serialize succeeds, and deserialize of the
\* text it produced returns a Timestamp with the same seconds and nanos.
C1_TextRoundTrip ==
    /\ (Acted /\ Last.op = "serialize" /\ InTextRange(Last.arg))
          => Last.res.kind = "ok"
    /\ (Len(trail) >= 2 /\ Prev.op = "serialize" /\ InTextRange(Prev.arg)
            /\ Last.op = "deserialize")
          => /\ Last.arg = Prev.res.val
             /\ Last.res = Ok(Prev.arg)

\* A Timestamp before the epoch, with a fraction, has come back from its text.
C1_Witness ==
    /\ Len(trail) >= 2
    /\ Prev.op = "serialize" /\ Last.op = "deserialize"
    /\ InTextRange(Prev.arg) /\ IsNeg(Prev.arg.seconds) /\ Prev.arg.nanos > 0
    /\ Last.res = Ok(Prev.arg)

\* C2: a == b exactly when a.seconds == b.seconds and a.nanos == b.nanos;
\* {seconds: 1, nanos: 10^9} and {seconds: 2, nanos: 0}, one instant, are unequal.
C2_StructuralEquality ==
    (Acted /\ Last.op = "compare") =>
        /\ Last.res.val <=> (Last.arg.seconds = Last.other.seconds
                             /\ Last.arg.nanos = Last.other.nanos)
        /\ (/\ Last.arg = Timestamp(I64(0, 1), 1000000000)
            /\ Last.other = Timestamp(I64(0, 2), 0)) => ~Last.res.val

\* {1, 10^9} has been compared with {2, 0} and found unequal.
C2_Witness ==
    /\ Acted /\ Last.op = "compare"
    /\ Last.arg = Timestamp(I64(0, 1), 1000000000)
    /\ Last.other = Timestamp(I64(0, 2), 0)
    /\ Last.res = Ok(FALSE)

\* C3: a == b implies hash(a) == hash(b); what is hashed is the stored
\* seconds and then the stored nanos, nothing else and not normalized, so two
\* values that differ in a field feed the hasher different bytes.
C3_HashConsistentWithEq ==
    (Acted /\ Last.op = "compare") =>
        /\ Last.res.val => Last.hash_arg = Last.hash_other
        /\ Last.hash_arg = Last.arg.seconds \o Bits(Last.arg.nanos, I32Bits)
        /\ Last.hash_other = Last.other.seconds \o Bits(Last.other.nanos, I32Bits)
        /\ Last.arg # Last.other => Last.hash_arg # Last.hash_other

\* Two equal values that are not normalized have been hashed alike, and two
\* encodings of one instant differently.
C3_Witness ==
    /\ Acted /\ Last.op = "compare"
    /\ ~Normalized(Last.arg)
    /\ Last.res = Ok(TRUE)
    /\ Last.hash_arg = Last.hash_other
    /\ hash(Timestamp(I64(0, 1), 1000000000), <<>>) # hash(Timestamp(I64(0, 2), 0), <<>>)

\* C4: serialize of a directly constructed Timestamp whose seconds * 10^9 +
\* nanos is outside the calendar's range returns a serialization error; it
\* does not abort the caller.
C4_OutOfRangeIsAnError ==
    (Acted /\ Last.op = "serialize" /\ OutOfCalendarRange(Last.arg))
        => Last.res.kind = "err"

\* What C5 says of every conversion: Timestamp::from(dt) has no failure path;
\* seconds is the floor of the instant's nanosecond count over 10^9 and nanos
\* the rest, within 0 .. 10^9, the same number the calendar value holds.
FromCalendarIsTotalAndNormalized ==
    (Acted /\ Last.op = "Timestamp_from") =>
        /\ Last.res.kind = "ok"
        /\ Normalized(Last.res.val)
        /\ Last.res.val.nanos = Last.arg.nanosecond
        /\ \A c \in CalendarCases :
              c.dt = Last.arg => Last.res.val.seconds = c.seconds

\* C5: the calendar -> Timestamp conversion is total and yields a normalized
\* value, seconds = floor(n / 10^9) and nanos = n mod 10^9 for the instant's
\* nanosecond count n, the narrowing to i32 changing nothing;
\* 2015-05-15T09:00:00Z yields {seconds: 1431680400, nanos: 0}.
C5_FromCalendar ==
    /\ FromCalendarIsTotalAndNormalized
    /\ (Acted /\ Last.op = "Timestamp_from"
            /\ Last.arg = DateTime(2015, 5, 15, 9, 0, 0, 0, 0))
          => Last.res = Ok(Timestamp(I64(1, 431680400), 0))

\* The last nanosecond before the epoch has been converted.
C5_Witness ==
    /\ Acted /\ Last.op = "Timestamp_from"
    /\ Last.arg = DateTime(1969, 12, 31, 23, 59, 59, 999999999, 0)
    /\ Last.res = Ok(Timestamp(I64(0, -1), 999999999))

\* C5 as first stated: 2015-05-15T09:00:00Z yields {seconds: 1431684000, nanos: 0}.
C5_AsStated ==
    /\ FromCalendarIsTotalAndNormalized
    /\ (Acted /\ Last.op = "Timestamp_from"
            /\ Last.arg = DateTime(2015, 5, 15, 9, 0, 0, 0, 0))
          => Last.res = Ok(Timestamp(I64(1, 431684000), 0))

\* C6: deserialize of a string that is no RFC 3339 date-time returns an error
\* whose message is the parser's diagnostic, and no Timestamp; a Timestamp is
\* returned only when the whole string parses.
C6_ParseFailureIsAnError ==
    (Acted /\ Last.op = "deserialize") =>
        /\ Last.arg \in MalformedStrings => Last.res.kind = "err"
        /\ Last.res.kind \in {"ok", "err"}
        /\ Last.res.kind = "ok" <=> parse_Rfc3339(Last.arg).kind = "ok"
        /\ Last.res.kind = "err" =>
              /\ Last.res.msg = parse_Rfc3339(Last.arg).msg
              /\ Last.res.msg # ""

\* "not-a-date" has been refused with the diagnostic of the year.
C6_Witness ==
    /\ Acted /\ Last.op = "deserialize"
    /\ Last.arg = <<"n", "o", "t", "-", "a", "-", "d", "a", "t", "e">>
    /\ Last.res = Err("the 'year' component could not be parsed")

\* C7: for every calendar value dt whose instant, in UTC, is within the
\* calendar's years, converting dt to a Timestamp and that Timestamp back
\* cannot fail and yields the same instant, at offset zero, with the same
\* nanosecond, also before the epoch; 2015-05-15T09:00:00.123456789Z passes
\* through {seconds: 1431680400, nanos: 123456789}.
C7_CalendarRoundTrip ==
    (Len(trail) >= 2 /\ Prev.op = "Timestamp_from"
        /\ Last.op = "OffsetDateTime_from" /\ InCalendarRange(Prev.arg)) =>
        /\ Last.arg = Prev.res.val
        /\ Last.res.kind = "ok"
        /\ Last.res.val.nanosecond = Prev.arg.nanosecond
        /\ Last.res.val.offset = 0
        /\ Prev.arg.offset = 0 => Last.res.val = Prev.arg
        /\ \A c \in CalendarCases : c.dt = Prev.arg => Last.res.val = c.utc
        /\ Prev.arg = DateTime(2015, 5, 15, 9, 0, 0, 123456789, 0)
              => Prev.res = Ok(Timestamp(I64(1, 431680400), 123456789))

\* A value at +01:00 whose instant is before the epoch has come back at
\* offset zero, on the day before.
C7_Witness ==
    /\ Len(trail) >= 2
    /\ Prev.op = "Timestamp_from" /\ Last.op = "OffsetDateTime_from"
    /\ Prev.arg = DateTime(1970, 1, 1, 0, 0, 0, 5, 3600)
    /\ Last.res = Ok(DateTime(1969, 12, 31, 23, 0, 0, 5, 0))

\* C7 as first stated: for every calendar value, and through
\* {seconds: 1431684000, nanos: 123456789}.
C7_AsStated ==
    (Len(trail) >= 2 /\ Prev.op = "Timestamp_from"
        /\ Last.op = "OffsetDateTime_from") =>
        /\ Last.res.kind = "ok"
        /\ Last.res.val.nanosecond = Prev.arg.nanosecond
        /\ \A c \in CalendarCases : c.dt = Prev.arg => Last.res.val = c.utc
        /\ Prev.arg = DateTime(2015, 5, 15, 9, 0, 0, 123456789, 0)
              => Prev.res = Ok(Timestamp(I64(1, 431684000), 123456789))

Prev2 == trail[Len(trail) - 2]

\* C8: for every valid RFC 3339 string s, with Z or a numeric offset, a
\* seconds field of 00 .. 59 and an instant within the years 0000 .. 9999 of
\* UTC, deserialize(s) has the seconds and nanos of the UTC instant s denotes
\* and serialize(deserialize(s)) is the quoted encoding of that instant with
\* Z, whatever offset s carried; two strings of one instant serialize to the
\* same text, and deserialize then serialize leaves that text unchanged.
C8_UtcCanonicalText ==
    /\ (Acted /\ Last.op = "deserialize") =>
          \A c \in ValidCases :
              (c.text = Last.arg /\ c.canon # <<>>)
                  => Last.res = Ok(Timestamp(c.seconds, c.nanos))
    /\ (Len(trail) >= 2 /\ Prev.op = "deserialize" /\ Last.op = "serialize") =>
          \A c \in ValidCases :
              (c.text = Prev.arg /\ c.canon # <<>>) =>
                  /\ Last.res = Ok(c.canon)
                  /\ Last.json = <<"\"">> \o c.canon \o <<"\"">>
                  /\ c.canon[Len(c.canon)] = "Z"
    /\ (Len(trail) >= 3 /\ Prev2.op = "serialize" /\ Prev.op = "deserialize"
            /\ Last.op = "serialize") =>
          /\ Last.res = Prev2.res
          /\ Last.json = Prev2.json
    /\ \A c, d \in ValidCases :
          (c.seconds = d.seconds /\ c.nanos = d.nanos) => c.canon = d.canon

\* 2015-05-15T11:00:00+02:00 has been read and written back as
\* "2015-05-15T09:00:00Z".
C8_Witness ==
    /\ Len(trail) >= 2
    /\ Prev.op = "deserialize" /\ Last.op = "serialize"
    /\ Prev.arg = <<"2", "0", "1", "5", "-", "0", "5", "-", "1", "5", "T",
                    "1", "1", ":", "0", "0", ":", "0", "0", "+", "0", "2", ":", "0", "0">>
    /\ Prev.res = Ok(Timestamp(I64(1, 431680400), 0))
    /\ Last.json = <<"\"", "2", "0", "1", "5", "-", "0", "5", "-", "1", "5", "T",
                     "0", "9", ":", "0", "0", ":", "0", "0", "Z", "\"">>

\* C8 as first stated: for every valid RFC 3339 string s, serialize(deserialize(s))
\* is the quoted encoding, with Z, of the instant s denotes.
C8_AsStated ==
    (Len(trail) >= 2 /\ Prev.op = "deserialize" /\ Last.op = "serialize"
        /\ Prev.arg \in {c.text : c \in ValidCases} \cup LeapSecondStrings) =>
        /\ Last.res.kind = "ok"
        /\ Last.res.val[Len(Last.res.val)] = "Z"
        /\ Last.json = serialize_str(Last.res.val)

\* C9: for every seconds of i64 and every nanos of i32, negative ones
\* included, seconds * 10^9 + nanos computed in i128 is the exact value:
\* neither the product nor the sum overflows.
C9_TotalNsIsExact ==
    (Acted /\ Last.op = "OffsetDateTime_from") =>
        /\ IsExactTotal(SignExtend(Last.total, 2 * I128Bits), Last.arg)
        /\ ~Last.overflow
        /\ Last.res.kind = "panic" => OutOfCalendarRange(Last.arg)

\* The least i64 with the least i32 has been converted.
C9_Witness ==
    /\ Acted /\ Last.op = "OffsetDateTime_from"
    /\ Last.arg = Timestamp(I64Min, I32Min)
    /\ IsNeg(Last.total)

\* C10: for every Timestamp ts, normalized or not, whose seconds * 10^9 + nanos
\* is in the calendar's range, converting ts to a calendar value and back
\* yields {floor(total_ns / 10^9), total_ns mod 10^9}: the same instant, a
\* fixed point of the two conversions, and unequal to ts exactly when ts is
\* not normalized ({1, 10^9} becomes {2, 0}, {0, -1} becomes {-1, 999999999});
\* so deserialize(serialize(ts)) is never ts for a ts that is not normalized.
C10_CalendarNormalizes ==
    /\ (Len(trail) >= 2 /\ Prev.op = "OffsetDateTime_from"
            /\ Last.op = "Timestamp_from") =>
          /\ Prev.res.kind = "ok" /\ ~OutOfCalendarRange(Prev.arg)
          /\ Normalized(Last.res.val)
          /\ IsExactTotal(SignExtend(Prev.total, 2 * I128Bits), Last.res.val)
          /\ \A o \in OffsetDateTime_from(Last.res.val) :
                o.kind = "ok" /\ Timestamp_from(o.val) = Last.res.val
          /\ eq(Last.res.val, Prev.arg) <=> Normalized(Prev.arg)
          /\ Prev.arg = Timestamp(I64(0, 1), 1000000000)
                => Last.res.val = Timestamp(I64(0, 2), 0)
          /\ Prev.arg = Timestamp(I64(0, 0), -1)
                => Last.res.val = Timestamp(I64(0, -1), 999999999)
    /\ (Acted /\ Last.op = "OffsetDateTime_from" /\ ~OutOfCalendarRange(Last.arg))
          => Last.res.kind = "ok"
    /\ (Len(trail) >= 2 /\ Prev.op = "serialize" /\ Last.op = "deserialize"
            /\ ~Normalized(Prev.arg)) =>
          /\ Last.res.kind = "ok"
          /\ ~eq(Last.res.val, Prev.arg)

\* {0, -1} has passed through the calendar and come back as {-1, 999999999}.
C10_Witness ==
    /\ Len(trail) >= 2
    /\ Prev.op = "OffsetDateTime_from" /\ Last.op = "Timestamp_from"
    /\ Prev.arg = Timestamp(I64(0, 0), -1)
    /\ Last.res = Ok(Timestamp(I64(0, -1), 999999999))

=============================================================================
